---- MODULE Spec2Model ----
(***************************************************************************)
(* The conversation driver of the finance research concierge               *)
(* (atlas/multiagents/finance_research.py, run) together with the agents   *)
(* it dispatches to.  One driver iteration is split at the points where    *)
(* the driver reads or writes its state: the choice of the message (top of *)
(* the loop), the routing decision, the selection of the agent, the chat   *)
(* with the agent and the history update.                                  *)
(*                                                                         *)
(* A Python string is a sequence of tokens: " " is a run of white space,   *)
(* every other token is a maximal run of other characters.  None is the    *)
(* one-token sequence <<"None~">>, which no string of the program equals.  *)
(***************************************************************************)
EXTENDS Naturals, Integers, Sequences, FiniteSets

VARIABLES
    state,            \* the dict `state` of run()
    first_run,        \* run(): first_run
    is_retry,         \* run(): is_retry
    num_tries,        \* run(): num_tries
    user_msg_str,     \* run(): user_msg_str
    current_history,  \* run(): current_history
    root_memory,      \* run(): the messages stored in root_memory
    next_speaker,     \* run(): next_speaker
    current_agent,    \* run(): the agent object current_agent
    pc,               \* position of the driver in the loop body
    branch,           \* observer: the branch of lines 105-130 taken by this iteration
    consulted,        \* observer: the orchestrator was asked in this iteration
    done_fired,       \* observer: done() ran during the latest chat, no routing since
    retry_count,      \* observer: consecutive iterations that ended in the else of line 170,
                      \* counted up to MaxTries
    eval_response,    \* observer: the trimmed reply of the evaluation of this iteration
    eval_count,       \* observer: evaluations run since user input was last read
    call,             \* one call of a tool: its name, its input and its outcome
    convs,            \* two conversations: the state records and who holds which
    recs              \* the state records on the heap, and the driver's, the
                      \* orchestrator's and the dispatched agent's reference to one

\* the variables of the driver
driver == <<state, first_run, is_retry, num_tries, user_msg_str, current_history,
            root_memory, next_speaker, current_agent, pc, branch, consulted,
            done_fired, retry_count, eval_response, eval_count>>

\* the variables the driver does not use
aside == <<call, convs, recs>>

vars == <<driver, aside>>

----------------------------------------------------------------------------
(* Bounds of the model *)

\* value up to which the model counts iterations and retries one by one; the value
\* MaxTries itself stands for MaxTries or more (at least the 5 of line 112)
MaxTries == 5
\* calls of done() an agent makes during one chat
MaxDoneCalls == 2
\* exchanges that fit the token limit of the root memory
MaxHistory == 1
\* matches the symbol search of the provider lists
MaxMatches == 2
\* entries of the daily series of the provider
MaxSeries == 3
\* articles the news provider returns
MaxArticles == 3
\* addresses of the heap that state records can be stored at
MaxRecords == 3

----------------------------------------------------------------------------
(* Strings *)

None == <<"None~">>
Unbound == <<"Unbound~">>
WS == " "

Str(tok) == <<tok>>

\* str.strip(): leading and trailing white space removed
RECURSIVE lstrip(_)
lstrip(s) == IF s # <<>> /\ Head(s) = WS THEN lstrip(Tail(s)) ELSE s

RECURSIVE rstrip(_)
rstrip(s) == IF s # <<>> /\ s[Len(s)] = WS THEN rstrip(SubSeq(s, 1, Len(s) - 1)) ELSE s

strip(s) == rstrip(lstrip(s))

\* `sub in s` for a one-token sub
Contains(s, tok) == \E i \in 1..Len(s) : s[i] = tok

\* truth value of an Optional[str]
Truthy_not_empty(s) == s # <<>>

Truthy(s) == s # None /\ s # <<>>

----------------------------------------------------------------------------
(* finance_config.AgentName *)

STOCK_LOOKUP == Str("stock_lookup")
COMPANY_RESEARCH == Str("company_research")
INDUSTRY_RESEARCH == Str("industry_research")
CONSUMER_RESEARCH == Str("consumer_research")
CONCIERGE == Str("concierge")
ORCHESTRATOR == Str("orchestrator")

AgentName == {STOCK_LOOKUP, COMPANY_RESEARCH, INDUSTRY_RESEARCH, CONSUMER_RESEARCH,
              CONCIERGE, ORCHESTRATOR}

\* every member of the enumeration
Dispatchable_all == AgentName

\* the names with a branch in lines 150-169
Dispatchable == {STOCK_LOOKUP, COMPANY_RESEARCH, INDUSTRY_RESEARCH, CONSUMER_RESEARCH,
                 CONCIERGE}

Specialized == {STOCK_LOOKUP, COMPANY_RESEARCH, INDUSTRY_RESEARCH, CONSUMER_RESEARCH}

----------------------------------------------------------------------------
(* Inputs: what the LLMs and the user can answer *)

\* the words of a reply: the six values of AgentName and any other text
Words == {"stock_lookup", "company_research", "industry_research",
          "consumer_research", "concierge", "orchestrator", "other"}

\* a text with and without white space around it
Padded(core) == {core, <<WS>> \o core, core \o <<WS>>, <<WS>> \o core \o <<WS>>}

RECURSIVE SeqsUpTo(_, _)
SeqsUpTo(S, n) ==
    IF n = 0 THEN {<<>>}
    ELSE LET shorter == SeqsUpTo(S, n - 1)
         IN shorter \cup {Append(s, t) : s \in shorter, t \in S}

\* replies of the orchestrator's LLM: nothing, one word, or a name inside a sentence
OrchestratorReplies ==
    UNION {Padded(core) : core \in {<<>>} \cup {<<w>> : w \in Words}
                                  \cup {<<"concierge", WS, "other">>}}

\* replies of the quality evaluation's LLM
EvalReplies == {<<"no_further_task">>, <<WS, "no_further_task", WS>>,
                <<"more">>, <<WS, "more">>, <<"more", WS, "no_further_task">>}

\* lines the user types
UserLines == {<<"query">>, <<WS, "query", WS>>}

\* arguments an agent passes to done()
Payloads == {Str("p1"), Str("p2")}

DoneCalls == SeqsUpTo(Payloads, MaxDoneCalls)

HELLO == Str("Hello")
\* the retry keeps the message whose routing failed
RETRY_MSG_previous == user_msg_str

RETRY_MSG == Str("That's not right, try again. Pick one agent.")
NO_FURTHER_TASK == "no_further_task"
EvalLimit == 5

\* line 104: num_tries += 1.  The counter is exact below MaxTries; run() reads it only
\* in the comparison num_tries < 5 of line 112, which no value from MaxTries on
\* satisfies, so the model keeps MaxTries for every such value
Incremented(n) == IF n < MaxTries THEN n + 1 ELSE MaxTries

----------------------------------------------------------------------------
(* The conversation state *)

\* a fresh state whose ticker is the empty string instead of None
get_initial_state_empty_ticker ==
    [ticker |-> <<>>, company_research |-> None, industry_research |-> None,
     consumer_research |-> None, current_agent |-> None, just_finished |-> FALSE]

get_initial_state ==
    [ticker |-> None, company_research |-> None, industry_research |-> None,
     consumer_research |-> None, current_agent |-> None, just_finished |-> FALSE]

----------------------------------------------------------------------------
(* The agents *)

\* a done() that records the ticker and forgets to release the floor
StockAgent_done_keeps_floor(s, ticker) ==
    [s EXCEPT !.ticker = ticker, !.just_finished = TRUE]

StockAgent_done(s, ticker) ==
    [s EXCEPT !.ticker = ticker, !.current_agent = None, !.just_finished = TRUE]

CompanyResearchAgent_done(s, research_result) ==
    [s EXCEPT !.company_research = research_result, !.current_agent = None,
              !.just_finished = TRUE]

IndustryResearchAgent_done_clears_ticker(s, research_result) ==
    [s EXCEPT !.industry_research = research_result, !.ticker = None,
              !.current_agent = None, !.just_finished = TRUE]

IndustryResearchAgent_done(s, research_result) ==
    [s EXCEPT !.industry_research = research_result, !.current_agent = None,
              !.just_finished = TRUE]

\* a done() copied from the industry agent with its field left unchanged
ConsumerResearchAgent_done_wrong_field(s, research_result) ==
    [s EXCEPT !.industry_research = research_result, !.current_agent = None,
              !.just_finished = TRUE]

ConsumerResearchAgent_done(s, research_result) ==
    [s EXCEPT !.consumer_research = research_result, !.current_agent = None,
              !.just_finished = TRUE]

\* a concierge whose tool releases the floor like the done() of the other agents
ConciergeAgent_tools_done(s, calls) ==
    IF calls = <<>> THEN s ELSE [s EXCEPT !.current_agent = None, !.just_finished = TRUE]

\* ConciergeAgent._create_agent: the only tool is dummy_tool
ConciergeAgent_tools(s, calls) == s

\* the tool `done` bound to the agent of that kind
AgentDone(kind, s, payload) ==
    CASE kind = STOCK_LOOKUP -> StockAgent_done(s, payload)
      [] kind = COMPANY_RESEARCH -> CompanyResearchAgent_done(s, payload)
      [] kind = INDUSTRY_RESEARCH -> IndustryResearchAgent_done(s, payload)
      [] kind = CONSUMER_RESEARCH -> ConsumerResearchAgent_done(s, payload)

\* the state after the tool calls the agent's LLM makes during one chat
RECURSIVE AgentTools(_, _, _)
AgentTools(kind, s, calls) ==
    IF kind = CONCIERGE THEN ConciergeAgent_tools(s, calls)
    ELSE IF calls = <<>> THEN s
    ELSE AgentTools(kind, AgentDone(kind, s, Head(calls)), Tail(calls))

\* the agent classes that set self.memory in __init__
HasMemory(kind) == kind \in Specialized

\* one exchange as the agent's memory records it: who answered
Exchange(kind, msg) == kind

\* the object a factory returns, known by its class
NewAgent(kind) == kind

\* agent.memory.get_all() after chat(msg, chat_history=history): the history it was
\* given and the exchange it added
AgentMemory(kind, history, msg) == Append(history, Exchange(kind, msg))


\* ChatMemoryBuffer.get(): the latest messages that fit the token limit
MemoryGet(msgs) ==
    IF Len(msgs) <= MaxHistory THEN msgs
    ELSE SubSeq(msgs, Len(msgs) - MaxHistory + 1, Len(msgs))

----------------------------------------------------------------------------
(* The decisions of the driver *)

\* num_tries <= 5
EvalDue_inclusive(s, tries) == s.just_finished = TRUE /\ tries <= EvalLimit

\* the evaluation is due whenever just_finished is set
EvalDue_no_limit(s, tries) == s.just_finished = TRUE

\* line 112: quality evaluation is due (num_tries already incremented)
EvalDue(s, tries) == s.just_finished = TRUE /\ tries < EvalLimit

\* user_msg_str == "no_further_task"
IsNoFurtherTask_whole(msg) == msg = Str(NO_FURTHER_TASK)

\* line 120: the evaluation found nothing left to do
IsNoFurtherTask(msg) == Contains(msg, NO_FURTHER_TASK)

\* a driver that starts a new conversation after no_further_task as well
ConsumeJustFinished_reset(s) == get_initial_state

\* line 122: the state after the evaluation answered no_further_task
ConsumeJustFinished(s) == [s EXCEPT !.just_finished = FALSE]

\* a driver that asks the orchestrator in every iteration
HasSpeaker_ignored(s) == FALSE

\* line 135: there is already a speaker
HasSpeaker(s) == Truthy(s.current_agent)

\* a driver that accepts any reply that starts with the name of an agent
IsValidSpeaker_prefix(speaker) == speaker # <<>> /\ <<Head(speaker)>> \in Dispatchable

\* lines 150-169: next_speaker names an agent the driver can instantiate
IsValidSpeaker(speaker) == speaker \in Dispatchable

\* lines 153, 157, 161, 165, 169: the driver records who speaks
\* the driver marks the dispatch as finished itself
PinSpeaker_finishes(s, speaker) ==
    [s EXCEPT !.current_agent = speaker, !.just_finished = TRUE]

PinSpeaker_concierge(s, speaker) == [s EXCEPT !.current_agent = CONCIERGE]

PinSpeaker(s, speaker) == [s EXCEPT !.current_agent = speaker]

\* the router's replies that name, once stripped, an agent of lines 150-169
DispatchableReplies == {reply \in OrchestratorReplies : IsValidSpeaker(strip(reply))}

----------------------------------------------------------------------------
\* no tool is being called, no second conversation is followed, no reference is
\* tracked
NoCall == [op |-> "none"]
NoConvs == [heap |-> <<>>]
NoRecs == [at |-> "none"]

\* lines 94-101: the driver before its first iteration
DriverInit ==
    /\ state = get_initial_state
    /\ first_run = TRUE
    /\ is_retry = FALSE
    /\ num_tries = 0
    /\ user_msg_str = Unbound
    /\ current_history = <<>>
    /\ root_memory = <<>>
    /\ next_speaker = Unbound
    /\ current_agent = NewAgent(Unbound)
    /\ pc = "top"
    /\ branch = "none"
    /\ consulted = FALSE
    /\ done_fired = FALSE
    /\ retry_count = 0
    /\ eval_response = Unbound
    /\ eval_count = 0

Init ==
    /\ DriverInit
    /\ call = NoCall
    /\ convs = NoConvs
    /\ recs = NoRecs

\* the first iteration, with first_run left set
FirstTurn_stays_first ==
    /\ pc = "top"
    /\ UNCHANGED aside
    /\ eval_response' = Unbound
    /\ UNCHANGED eval_count
    /\ first_run
    /\ num_tries' = Incremented(num_tries)
    /\ user_msg_str' = HELLO
    /\ current_history' = MemoryGet(root_memory)
    /\ pc' = "route"
    /\ branch' = "first"
    /\ UNCHANGED <<state, first_run, is_retry, root_memory, next_speaker, current_agent,
                   consulted, done_fired, retry_count>>

\* lines 103-108 and 132: the first iteration
FirstTurn ==
    /\ pc = "top"
    /\ UNCHANGED aside
    /\ eval_response' = Unbound
    /\ UNCHANGED eval_count
    /\ first_run
    /\ num_tries' = Incremented(num_tries)
    /\ user_msg_str' = HELLO
    /\ first_run' = FALSE
    /\ current_history' = MemoryGet(root_memory)
    /\ pc' = "route"
    /\ branch' = "first"
    /\ UNCHANGED <<state, is_retry, root_memory, next_speaker, current_agent,
                   consulted, done_fired, retry_count>>

\* lines 109-111 and 132: the iteration after an invalid routing result
RetryRouting ==
    /\ pc = "top"
    /\ UNCHANGED aside
    /\ eval_response' = Unbound
    /\ UNCHANGED eval_count
    /\ ~first_run
    /\ is_retry = TRUE
    /\ num_tries' = Incremented(num_tries)
    /\ user_msg_str' = RETRY_MSG
    /\ is_retry' = FALSE
    /\ current_history' = MemoryGet(root_memory)
    /\ pc' = "route"
    /\ branch' = "retry"
    /\ UNCHANGED <<state, first_run, root_memory, next_speaker, current_agent,
                   consulted, done_fired, retry_count>>

\* lines 112-123 and 132: quality evaluation
QualityEval ==
    /\ pc = "top"
    /\ UNCHANGED aside
    /\ ~first_run
    /\ is_retry # TRUE
    /\ EvalDue(state, Incremented(num_tries))
    /\ \E reply \in EvalReplies :
         LET msg == strip(reply) IN
         /\ eval_response' = msg
         /\ IF IsNoFurtherTask(msg)
            THEN \E line \in UserLines :
                   /\ user_msg_str' = strip(line)
                   /\ state' = ConsumeJustFinished(state)
                   /\ num_tries' = 0
                   /\ branch' = "eval_user"
                   /\ retry_count' = 0
                   /\ eval_count' = 0
            ELSE /\ user_msg_str' = msg
                 /\ state' = state
                 /\ num_tries' = Incremented(num_tries)
                 /\ branch' = "eval_followup"
                 /\ retry_count' = retry_count
                 /\ eval_count' = eval_count + 1
    /\ current_history' = MemoryGet(root_memory)
    /\ pc' = "route"
    /\ UNCHANGED <<first_run, is_retry, root_memory, next_speaker, current_agent,
                   consulted, done_fired>>

\* lines 124-132: user input and a fresh state
AwaitUser ==
    /\ pc = "top"
    /\ UNCHANGED aside
    /\ eval_response' = Unbound
    /\ eval_count' = 0
    /\ ~first_run
    /\ is_retry # TRUE
    /\ ~EvalDue(state, Incremented(num_tries))
    /\ \E line \in UserLines : user_msg_str' = strip(line)
    /\ state' = get_initial_state
    /\ num_tries' = 0
    /\ current_history' = MemoryGet(root_memory)
    /\ pc' = "route"
    /\ branch' = "user"
    /\ retry_count' = 0
    /\ UNCHANGED <<first_run, is_retry, root_memory, next_speaker, current_agent,
                   consulted, done_fired>>

\* lines 134-146: who should speak next
Route ==
    /\ pc = "route"
    /\ UNCHANGED aside
    /\ UNCHANGED <<eval_response, eval_count>>
    /\ IF HasSpeaker(state)
       THEN /\ next_speaker' = state.current_agent
            /\ consulted' = FALSE
       ELSE /\ \E reply \in OrchestratorReplies : next_speaker' = strip(reply)
            /\ consulted' = TRUE
    /\ pc' = "select"
    /\ done_fired' = FALSE
    /\ UNCHANGED <<state, first_run, is_retry, num_tries, user_msg_str, current_history,
                   root_memory, current_agent, branch, retry_count>>

\* lines 150-173: the agent named by next_speaker, or a retry
Select ==
    /\ pc = "select"
    /\ UNCHANGED aside
    /\ UNCHANGED <<eval_response, eval_count>>
    /\ IF IsValidSpeaker(next_speaker)
       THEN /\ current_agent' = NewAgent(next_speaker)
            /\ state' = PinSpeaker(state, next_speaker)
            /\ pc' = "chat"
            /\ retry_count' = 0
            /\ UNCHANGED is_retry
       ELSE /\ is_retry' = TRUE
            /\ pc' = "top"
            /\ retry_count' = Incremented(retry_count)
            /\ UNCHANGED <<state, current_agent>>
    /\ UNCHANGED <<first_run, num_tries, user_msg_str, current_history, root_memory,
                   next_speaker, branch, consulted, done_fired>>

\* line 179: the chat with the selected agent, the tool calls of its LLM included
Chat ==
    /\ pc = "chat"
    /\ UNCHANGED aside
    /\ UNCHANGED <<eval_response, eval_count>>
    /\ \E calls \in DoneCalls :
         /\ state' = AgentTools(current_agent, state, calls)
         /\ done_fired' = (current_agent # CONCIERGE /\ calls # <<>>)
    /\ pc' = "history"
    /\ UNCHANGED <<first_run, is_retry, num_tries, user_msg_str, current_history,
                   root_memory, next_speaker, current_agent, branch, consulted,
                   retry_count>>

\* lines 183-184: the agent's memory becomes the root history
UpdateHistory ==
    /\ pc = "history"
    /\ UNCHANGED aside
    /\ UNCHANGED <<eval_response, eval_count>>
    /\ IF HasMemory(current_agent)
       THEN /\ root_memory' = AgentMemory(current_agent, current_history, user_msg_str)
            /\ pc' = "top"
       ELSE /\ pc' = "stopped"
            /\ UNCHANGED root_memory
    /\ UNCHANGED <<state, first_run, is_retry, num_tries, user_msg_str, current_history,
                   next_speaker, current_agent, branch, consulted, done_fired,
                   retry_count>>

Next ==
    \/ FirstTurn
    \/ RetryRouting
    \/ QualityEval
    \/ AwaitUser
    \/ Route
    \/ Select
    \/ Chat
    \/ UpdateHistory

Spec == Init /\ [][Next]_vars

----------------------------------------------------------------------------
(* The driver with a router that always names an agent, and calls that return *)

\* lines 134-146, the orchestrator answering with a dispatchable name
RouteDispatchable ==
    /\ pc = "route"
    /\ UNCHANGED aside
    /\ UNCHANGED <<eval_response, eval_count>>
    /\ IF HasSpeaker(state)
       THEN /\ next_speaker' = state.current_agent
            /\ consulted' = FALSE
       ELSE /\ \E reply \in DispatchableReplies : next_speaker' = strip(reply)
            /\ consulted' = TRUE
    /\ pc' = "select"
    /\ done_fired' = FALSE
    /\ UNCHANGED <<state, first_run, is_retry, num_tries, user_msg_str, current_history,
                   root_memory, current_agent, branch, retry_count>>

\* the loop of lines 103-184 when no routing result is invalid
AnsweredNext ==
    \/ FirstTurn
    \/ QualityEval
    \/ AwaitUser
    \/ RouteDispatchable
    \/ Select
    \/ Chat
    \/ UpdateHistory

\* run() is sequential: when every call returns, the statement that is next is executed
Answered == Init /\ [][AnsweredNext]_vars /\ WF_vars(AnsweredNext)

----------------------------------------------------------------------------
(* One activation of a specialized agent, one tool call at a time *)

\* what a field of the state can hold
FieldValues == {None} \cup Payloads

\* the fields of the state that hold a result
Fields == {"ticker", "company_research", "industry_research", "consumer_research"}

\* the field a specialized agent's done writes: ticker for the stock agent, the field
\* named like the agent for the three research agents
OwnField(kind) == IF kind = STOCK_LOOKUP THEN "ticker" ELSE kind[1]

\* the states the driver can hand to a specialized agent: the router was consulted
\* (current_agent was empty) and the driver pinned the agent; just_finished is still
\* true only after a completion, which left a result behind
PinnedStates(kind) ==
    {PinSpeaker(s, kind) :
        s \in {t \in [ticker : FieldValues, company_research : FieldValues,
                      industry_research : FieldValues, consumer_research : FieldValues,
                      current_agent : {None}, just_finished : BOOLEAN] :
                 t.just_finished => \E f \in Fields : t[f] # None}}

\* finance_research.py line 179 is about to run for a specialized agent: the state
\* of the driver when pc = "chat", after a reset (no result yet), after an evaluation
\* that asked the user, or after one that produced a follow-up (just_finished kept).
\* The history is the one two chats of an agent that owns a result leave behind.
\* Every such state is a state Spec reaches with pc = "chat".
ActivationInit ==
    /\ pc = "chat"
    /\ \E kind \in Specialized :
         /\ next_speaker = kind
         /\ current_agent = NewAgent(kind)
         /\ state \in PinnedStates(kind)
    /\ first_run = FALSE
    /\ is_retry = FALSE
    /\ branch = IF state.just_finished THEN "eval_followup"
                ELSE IF \E f \in Fields : state[f] # None THEN "eval_user" ELSE "user"
    /\ num_tries = IF state.just_finished THEN 1 ELSE 0
    /\ user_msg_str = IF state.just_finished THEN Str("more") ELSE Str("query")
    /\ \E last \in Specialized :
         /\ (\E f \in Fields : state[f] # None) => state[OwnField(last)] # None
         /\ root_memory = <<Exchange(last, user_msg_str), Exchange(last, user_msg_str)>>
         /\ current_history = MemoryGet(root_memory)
    /\ consulted = TRUE
    /\ done_fired = FALSE
    /\ retry_count = 0
    /\ eval_response = IF branch = "eval_followup" THEN user_msg_str
                       ELSE IF branch = "eval_user" THEN Str(NO_FURTHER_TASK) ELSE Unbound
    /\ eval_count = IF branch = "eval_followup" THEN 1 ELSE 0
    /\ call = [op |-> "done", payloads |-> <<>>]
    /\ convs = NoConvs
    /\ recs = NoRecs

\* the agent's LLM calls the done tool of the agent once more (the tool is bound to
\* the state in the factory; nothing limits how often one chat calls it)
DoneCall ==
    /\ pc = "chat"
    /\ call.op = "done"
    /\ Len(call.payloads) < MaxDoneCalls
    /\ \E payload \in Payloads :
         /\ state' = AgentDone(current_agent, state, payload)
         /\ call' = [call EXCEPT !.payloads = Append(@, payload)]
    /\ done_fired' = TRUE
    /\ UNCHANGED <<first_run, is_retry, num_tries, user_msg_str, current_history,
                   root_memory, next_speaker, current_agent, pc, branch, consulted,
                   retry_count, eval_response, eval_count, convs, recs>>

ActivationNext == DoneCall

Activation == ActivationInit /\ [][ActivationNext]_vars

----------------------------------------------------------------------------
(* The finance tools (atlas/actions/finance/finance_tools.py)                *)
(* A call of a tool takes what the provider answered as its input.  A dict   *)
(* is a function whose domain is the set of its keys.                        *)

\* the outcome of a call: not made yet, a value returned, an exception raised
Pending == [kind |-> "pending"]
Return(value) == [kind |-> "return", value |-> value]
Raise(exc) == [kind |-> "raise", value |-> exc]

\* `key in d` and the empty dict
Has(d, key) == key \in DOMAIN d
EmptyDict == [key \in {} |-> None]

\* d.get(key, default)
dict_get(d, key, default) == IF Has(d, key) THEN d[key] ELSE default

\* the JSON body of a provider's answer: "Error Message" when err, the payload under
\* payload_key when has_payload
ProviderData(err, has_payload, payload_key, payload) ==
    [key \in (IF err THEN {"Error Message"} ELSE {})
               \cup (IF has_payload THEN {payload_key} ELSE {})
        |-> IF key = "Error Message" THEN Str("Invalid API call") ELSE payload]

\* --- search_for_stock_symbol (lines 59-91)

MatchKeys == {"1. symbol", "2. name", "3. type", "4. region", "8. currency",
              "9. matchScore"}

\* the matches the provider can list: each key of a match holds a value of its own
Matches == {[key \in MatchKeys |-> <<key, company>>] : company \in {"AAPL", "APLE"}}

SearchData ==
    {ProviderData(err, has, "bestMatches", matches) :
        err \in BOOLEAN, has \in BOOLEAN, matches \in SeqsUpTo(Matches, MaxMatches)}

\* data["bestMatches"][-1]
BestMatch_last(matches) == matches[Len(matches)]

\* lines 86-90: data["bestMatches"][0]
BestMatch(matches) == matches[1]

search_for_stock_symbol(data) ==
    IF Has(data, "Error Message") THEN Raise("ValueError")
    ELSE IF ~Has(data, "bestMatches") \/ data["bestMatches"] = <<>>
         THEN Raise("ValueError")
    ELSE LET best_match == BestMatch(data["bestMatches"])
         IN  Return([symbol |-> best_match["1. symbol"],
                     name |-> best_match["2. name"],
                     type |-> best_match["3. type"],
                     region |-> best_match["4. region"],
                     currency |-> best_match["8. currency"]])

\* --- get_historical_stock_prices (lines 112-157)

\* the decimal number a string of digits writes (int, float)
RECURSIVE ParseNat(_)
ParseNat(digits) ==
    IF digits = <<>> THEN 0
    ELSE 10 * ParseNat(SubSeq(digits, 1, Len(digits) - 1)) + digits[Len(digits)]

\* character order of two strings of the same layout (str.__lt__)
RECURSIVE StrLess(_, _)
StrLess(a, b) ==
    IF a = <<>> THEN b # <<>>
    ELSE IF b = <<>> THEN FALSE
    ELSE IF Head(a) = Head(b) THEN StrLess(Tail(a), Tail(b))
    ELSE Head(a) < Head(b)

\* the dates of the provider, zero-padded 'YYYY-MM-DD', one character per element
DateStrings ==
    {<<2, 0, 2, 2, "-", 1, 2, "-", 3, 1>>, <<2, 0, 2, 3, "-", 0, 1, "-", 0, 1>>,
     <<2, 0, 2, 3, "-", 0, 1, "-", 0, 2>>, <<2, 0, 2, 3, "-", 0, 1, "-", 1, 0>>}

\* datetime.strptime(date_str, "%Y-%m-%d")
strptime(date_str) ==
    [year |-> ParseNat(SubSeq(date_str, 1, 4)),
     month |-> ParseNat(SubSeq(date_str, 6, 7)),
     day |-> ParseNat(SubSeq(date_str, 9, 10))]

\* datetime.__le__
DateLeq(a, b) ==
    \/ a.year < b.year
    \/ a.year = b.year /\ a.month < b.month
    \/ a.year = b.year /\ a.month = b.month /\ a.day <= b.day

\* the closing prices the provider can report, as it writes them
ClosePrices == {<<1, 5, 0>>, <<1, 5, 5>>}

\* time_series.items(): the entries of the daily series in the order of the answer,
\* no date twice (the dates are the keys of a dict)
SeriesItems ==
    {items \in SeqsUpTo(DateStrings \X {[key \in {"4. close"} |-> price] :
                                           price \in ClosePrices}, MaxSeries) :
        \A i, j \in 1..Len(items) : i # j => items[i][1] # items[j][1]}

HistoricalInputs ==
    {[data |-> ProviderData(err, has, "Time Series (Daily)", items),
      start_date |-> start_date, end_date |-> end_date] :
        err \in BOOLEAN, has \in BOOLEAN, items \in SeriesItems,
        start_date \in DateStrings, end_date \in DateStrings}

\* start_date <= date < end_date
InRange_end_excluded(date, start_date, end_date) ==
    DateLeq(start_date, date) /\ ~DateLeq(end_date, date)

\* line 148: start_date <= date <= end_date
InRange(date, start_date, end_date) ==
    DateLeq(start_date, date) /\ DateLeq(date, end_date)

\* lines 146-152: the loop over the items
RECURSIVE CollectPrices(_, _, _)
CollectPrices(items, start_date, end_date) ==
    IF items = <<>> THEN <<>>
    ELSE LET date_str == Head(items)[1]
             values == Head(items)[2]
             rest == CollectPrices(Tail(items), start_date, end_date)
         IN  IF InRange(strptime(date_str), start_date, end_date)
             THEN <<[date |-> date_str, price |-> ParseNat(values["4. close"])]>> \o rest
             ELSE rest

\* sorted(historical_prices, key=lambda x: x["date"]): stable, by the date string
RECURSIVE sorted(_)
sorted(prices) ==
    IF prices = <<>> THEN <<>>
    ELSE LET x == prices[Len(prices)]
             before == sorted(SubSeq(prices, 1, Len(prices) - 1))
             k == Cardinality({i \in 1..Len(before) : ~StrLess(x.date, before[i].date)})
         IN  SubSeq(before, 1, k) \o <<x>> \o SubSeq(before, k + 1, Len(before))

get_historical_stock_prices(in) ==
    IF Has(in.data, "Error Message") THEN Raise("ValueError")
    ELSE IF ~Has(in.data, "Time Series (Daily)") THEN Raise("ValueError")
    ELSE LET time_series == in.data["Time Series (Daily)"]
             historical_prices == CollectPrices(time_series, strptime(in.start_date),
                                                strptime(in.end_date))
         IN  IF historical_prices = <<>> THEN Raise("ValueError")
             ELSE Return(sorted(historical_prices))

\* --- get_sentiment_analysis (lines 260-310)

\* polarity scores in hundredths: 0.05 is 5
PolarityThreshold == 5
Polarities == {-6, -5, 0, 5, 6}

\* an article of the answer: a dict that may lack its title or its description; the
\* description carries the score TextBlob gives the text
NewsArticles ==
    {[key \in {"title", "description"} |-> IF key = "title" THEN Str("headline") ELSE score] :
        score \in Polarities}
    \cup {[key \in {"description"} |-> score] : score \in Polarities}
    \cup {[key \in {"title"} |-> Str("headline")]}

\* the answer of the news provider: an HTTP status and a JSON body
NewsResponses ==
    {[http_error |-> http_error,
      json |-> [key \in (IF has THEN {"articles"} ELSE {}) |-> articles]] :
        http_error \in BOOLEAN, has \in BOOLEAN,
        articles \in SeqsUpTo(NewsArticles, MaxArticles)}

\* TextBlob(text).sentiment.polarity of f"{title} {description}"
polarity(text) == text[2]

RECURSIVE sum(_)
sum(scores) == IF scores = <<>> THEN 0 ELSE Head(scores) + sum(Tail(scores))

IsPositive(s) == s > PolarityThreshold

\* -0.05 < s < 0.05
IsNeutral_open(s) == -PolarityThreshold < s /\ s < PolarityThreshold

\* line 296: -0.05 <= s <= 0.05
IsNeutral(s) == -PolarityThreshold <= s /\ s <= PolarityThreshold

IsNegative(s) == s < -PolarityThreshold

\* lines 279-305: the body of the try
sentiment_try(response) ==
    IF response.http_error THEN Raise("HTTPError")
    ELSE LET articles == dict_get(response.json, "articles", <<>>)
         IN  IF articles = <<>> THEN Raise("ValueError")
             ELSE IF \E i \in 1..Len(articles) :
                        ~Has(articles[i], "title") \/ ~Has(articles[i], "description")
                  THEN Raise("KeyError")
             ELSE LET sentiments == [i \in 1..Len(articles) |->
                                        polarity(<<articles[i]["title"],
                                                   articles[i]["description"]>>)]
                      count(P(_)) == Cardinality({i \in 1..Len(sentiments) : P(sentiments[i])})
                  IN  Return([overall_sentiment |-> <<sum(sentiments), Len(sentiments)>>,
                              positive_articles |-> count(IsPositive),
                              neutral_articles |-> count(IsNeutral),
                              negative_articles |-> count(IsNegative),
                              article_count |-> Len(articles)])

RequestException == {"HTTPError", "ConnectionError", "Timeout"}

\* only `except requests.RequestException`: any other exception passes through
except_requests_only(exc) == IF exc \in RequestException THEN "ValueError" ELSE exc

\* lines 307-310: both except clauses raise ValueError
except(exc) == IF exc \in RequestException THEN "ValueError" ELSE "ValueError"

get_sentiment_analysis(response) ==
    LET outcome == sentiment_try(response)
    IN  IF outcome.kind = "raise" THEN Raise(except(outcome.value)) ELSE outcome

\* --- get_company_leadership (lines 312-348)

NA == Str("N/A")

LeadershipKeys == {"CEO", "Company", "Industry", "Sector", "Full Time Employees",
                   "Website"}

\* the key of company.info each key of the result is read from
InfoKey(key) ==
    CASE key = "CEO" -> "ceo"
      [] key = "Company" -> "longName"
      [] key = "Industry" -> "industry"
      [] key = "Sector" -> "sector"
      [] key = "Full Time Employees" -> "fullTimeEmployees"
      [] key = "Website" -> "website"

InfoKeys == {InfoKey(key) : key \in LeadershipKeys}

\* yf.Ticker(ticker).info: the lookup raises, or it yields a dict with some of the keys
ProfileLookups ==
    {[ok |-> FALSE, info |-> EmptyDict]}
    \cup {[ok |-> TRUE, info |-> [key \in keys |-> <<key, "value">>]] :
             keys \in SUBSET InfoKeys}

get_company_leadership(lookup) ==
    IF ~lookup.ok THEN Return(EmptyDict)
    ELSE Return([key \in LeadershipKeys |-> dict_get(lookup.info, InfoKey(key), NA)])

\* --- one call of a tool

ToolsInit ==
    /\ DriverInit
    /\ convs = NoConvs
    /\ recs = NoRecs
    /\ \/ \E data \in SearchData :
            call = [op |-> "search_for_stock_symbol", input |-> data, result |-> Pending]
       \/ \E in \in HistoricalInputs :
            call = [op |-> "get_historical_stock_prices", input |-> in, result |-> Pending]
       \/ \E response \in NewsResponses :
            call = [op |-> "get_sentiment_analysis", input |-> response, result |-> Pending]
       \/ \E lookup \in ProfileLookups :
            call = [op |-> "get_company_leadership", input |-> lookup, result |-> Pending]

Call_search_for_stock_symbol ==
    /\ call.op = "search_for_stock_symbol"
    /\ call.result.kind = "pending"
    /\ call' = [call EXCEPT !.result = search_for_stock_symbol(call.input)]
    /\ UNCHANGED <<driver, convs, recs>>

Call_get_historical_stock_prices ==
    /\ call.op = "get_historical_stock_prices"
    /\ call.result.kind = "pending"
    /\ call' = [call EXCEPT !.result = get_historical_stock_prices(call.input)]
    /\ UNCHANGED <<driver, convs, recs>>

Call_get_sentiment_analysis ==
    /\ call.op = "get_sentiment_analysis"
    /\ call.result.kind = "pending"
    /\ call' = [call EXCEPT !.result = get_sentiment_analysis(call.input)]
    /\ UNCHANGED <<driver, convs, recs>>

Call_get_company_leadership ==
    /\ call.op = "get_company_leadership"
    /\ call.result.kind = "pending"
    /\ call' = [call EXCEPT !.result = get_company_leadership(call.input)]
    /\ UNCHANGED <<driver, convs, recs>>

ToolsNext ==
    \/ Call_search_for_stock_symbol
    \/ Call_get_historical_stock_prices
    \/ Call_get_sentiment_analysis
    \/ Call_get_company_leadership

Tools == ToolsInit /\ [][ToolsNext]_vars

----------------------------------------------------------------------------
(* Two conversations.  A state record is a dict on the heap and a           *)
(* conversation holds a reference to it: done(), the pinning of the speaker  *)
(* and the clearing of just_finished write into the dict in place, a reset   *)
(* binds the conversation to the dict a new call of get_initial_state        *)
(* returns.                                                                  *)

Conversations == {1, 2}

\* no dict: the conversation has not called get_initial_state yet
NoRef == 0

\* get_initial_state returns one module-level dict
NewDictRefs_shared(heap) == {1}

\* lines 84-91: the dict literal evaluates to a new dict, at an address no live dict has
NewDictRefs(heap) == (1..MaxRecords) \ DOMAIN heap

\* the heap with the dict at ref replaced, or added
Store(heap, ref, record) ==
    [r \in DOMAIN heap \cup {ref} |-> IF r = ref THEN record ELSE heap[r]]

\* the dicts some conversation still refers to (the others are collected)
Live(heap, held) ==
    [r \in {q \in DOMAIN heap : \E c \in Conversations : held[c] = q} |-> heap[r]]

\* the state record of conversation c
StateOf(c) == convs.heap[convs.held[c]]

\* state = get_initial_state(), at line 94 (first = TRUE) and at line 129
Rebind(c) ==
    \E ref \in NewDictRefs(convs.heap) :
        LET held == [convs.held EXCEPT ![c] = ref]
        IN  convs' = [heap |-> Live(Store(convs.heap, ref, get_initial_state), held),
                      held |-> held, actor |-> c]

\* a write into the dict of conversation c
WriteState(c, record) ==
    convs' = [convs EXCEPT !.heap = Store(convs.heap, convs.held[c], record),
                           !.actor = c]

IsolationInit ==
    /\ DriverInit
    /\ call = NoCall
    /\ recs = NoRecs
    /\ convs = [heap |-> <<>>, held |-> [c \in Conversations |-> NoRef], actor |-> NoRef]

\* line 94
StartConversation(c) ==
    /\ convs.held[c] = NoRef
    /\ Rebind(c)
    /\ UNCHANGED <<driver, call, recs>>

\* lines 150-169: the router was consulted and the driver pins its choice
DispatchIn(c) ==
    /\ convs.held[c] # NoRef
    /\ ~HasSpeaker(StateOf(c))
    /\ \E speaker \in Dispatchable : WriteState(c, PinSpeaker(StateOf(c), speaker))
    /\ UNCHANGED <<driver, call, recs>>

\* line 179: the pinned specialized agent signals completion
CompleteIn(c) ==
    /\ convs.held[c] # NoRef
    /\ StateOf(c).current_agent \in Specialized
    /\ WriteState(c, AgentDone(StateOf(c).current_agent, StateOf(c), Str("p1")))
    /\ UNCHANGED <<driver, call, recs>>

\* line 122: the evaluation found no further task
ConsumeIn(c) ==
    /\ convs.held[c] # NoRef
    /\ StateOf(c).just_finished
    /\ WriteState(c, ConsumeJustFinished(StateOf(c)))
    /\ UNCHANGED <<driver, call, recs>>

\* line 129: reset on user input
ResetIn(c) ==
    /\ convs.held[c] # NoRef
    /\ Rebind(c)
    /\ UNCHANGED <<driver, call, recs>>

IsolationNext ==
    \E c \in Conversations :
        \/ StartConversation(c)
        \/ DispatchIn(c)
        \/ CompleteIn(c)
        \/ ConsumeIn(c)
        \/ ResetIn(c)

Isolation == IsolationInit /\ [][IsolationNext]_vars

----------------------------------------------------------------------------
(* The state record by reference.  run() holds a reference to a dict in its  *)
(* local `state`, the orchestrator holds one in self.state and so does the   *)
(* agent a factory returned; a reset binds only the local `state` to a new   *)
(* dict.  The quality evaluation agent of line 114 holds its reference for   *)
(* the duration of its chat only and never writes through it.                *)

\* lines 99-103
has_ticker(s) == s.ticker # None

\* lines 105-110
has_company_research(s) == s.ticker # None /\ s.company_research # None

\* lines 112-116
has_industry_research(s) == s.industry_research # None

\* lines 118-122
has_consumer_research(s) == s.consumer_research # None

\* what the four checks answer when the orchestrator's LLM calls them on the dict s
FlagChecks(s) ==
    [has_ticker |-> has_ticker(s),
     has_company_research |-> has_company_research(s),
     has_industry_research |-> has_industry_research(s),
     has_consumer_research |-> has_consumer_research(s)]

\* no consultation yet
NoFlags == [has_ticker |-> FALSE, has_company_research |-> FALSE,
            has_industry_research |-> FALSE, has_consumer_research |-> FALSE]

\* a chat that leaves self.state as the constructor bound it (as achat does)
OrchestrationAgent_chat_unbound(self_state, passed) == self_state

\* lines 125-126: self.state after chat(..., state=passed); NoRef is None
OrchestrationAgent_chat(self_state, passed) ==
    IF passed # NoRef THEN passed ELSE self_state

\* the dicts still referred to by run(), the orchestrator or the current agent
Held(heap, state_ref, orch_ref, agent_ref) ==
    [r \in DOMAIN heap \cap {state_ref, orch_ref, agent_ref} |-> heap[r]]

\* lines 94-101: one dict, bound to `state` and to the orchestrator
RecordsInit ==
    /\ DriverInit
    /\ call = NoCall
    /\ convs = NoConvs
    /\ \E ref \in NewDictRefs(<<>>) :
         recs = [heap |-> Store(<<>>, ref, get_initial_state),
                 state |-> ref, orch |-> ref, agent |-> NoRef,
                 first_run |-> TRUE, is_retry |-> FALSE, num_tries |-> 0,
                 next_speaker |-> Unbound, at |-> "top", consulted |-> FALSE,
                 flags |-> NoFlags, wrote |-> NoRef]

\* lines 103-108
FirstTurnByRef ==
    /\ recs.at = "top"
    /\ recs.first_run
    /\ recs' = [recs EXCEPT !.num_tries = Incremented(@), !.first_run = FALSE, !.at = "route",
                            !.wrote = NoRef]
    /\ UNCHANGED <<driver, call, convs>>

\* lines 109-111
RetryRoutingByRef ==
    /\ recs.at = "top"
    /\ ~recs.first_run
    /\ recs.is_retry = TRUE
    /\ recs' = [recs EXCEPT !.num_tries = Incremented(@), !.is_retry = FALSE, !.at = "route",
                            !.wrote = NoRef]
    /\ UNCHANGED <<driver, call, convs>>

\* lines 112-123: state["just_finished"] is read and cleared through `state`
QualityEvalByRef ==
    /\ recs.at = "top"
    /\ ~recs.first_run
    /\ recs.is_retry # TRUE
    /\ EvalDue(recs.heap[recs.state], Incremented(recs.num_tries))
    /\ \E reply \in EvalReplies :
         IF IsNoFurtherTask(strip(reply))
         THEN recs' = [recs EXCEPT
                         !.heap = Store(@, recs.state,
                                        ConsumeJustFinished(recs.heap[recs.state])),
                         !.num_tries = 0, !.at = "route", !.wrote = NoRef]
         ELSE recs' = [recs EXCEPT !.num_tries = Incremented(@), !.at = "route",
                                   !.wrote = NoRef]
    /\ UNCHANGED <<driver, call, convs>>

\* lines 124-130: `state` is bound to a new dict; the orchestrator and the agent of
\* the previous dispatch keep the dict they have
AwaitUserByRef ==
    /\ recs.at = "top"
    /\ ~recs.first_run
    /\ recs.is_retry # TRUE
    /\ ~EvalDue(recs.heap[recs.state], Incremented(recs.num_tries))
    /\ \E ref \in NewDictRefs(recs.heap) :
         recs' = [recs EXCEPT
                    !.heap = Held(Store(@, ref, get_initial_state),
                                  ref, recs.orch, recs.agent),
                    !.state = ref, !.num_tries = 0, !.at = "route", !.wrote = NoRef]
    /\ UNCHANGED <<driver, call, convs>>

\* lines 134-146: the fast path, or orchestration_agent.chat(..., state=state), during
\* which the orchestrator's LLM may call the flag checks
RouteByRef ==
    /\ recs.at = "route"
    /\ IF HasSpeaker(recs.heap[recs.state])
       THEN recs' = [recs EXCEPT
                       !.next_speaker = recs.heap[recs.state].current_agent,
                       !.consulted = FALSE, !.at = "select"]
       ELSE \E speaker \in {strip(reply) : reply \in OrchestratorReplies} :
              LET bound == OrchestrationAgent_chat(recs.orch, recs.state)
              IN  recs' = [recs EXCEPT
                             !.orch = bound,
                             !.flags = FlagChecks(recs.heap[bound]),
                             !.heap = Held(@, recs.state, bound, recs.agent),
                             !.next_speaker = speaker,
                             !.consulted = TRUE, !.at = "select"]
    /\ UNCHANGED <<driver, call, convs>>

\* lines 150-173: the factory binds the new agent to `state`, the driver pins the
\* speaker through `state`; or a retry
SelectByRef ==
    /\ recs.at = "select"
    /\ IF IsValidSpeaker(recs.next_speaker)
       THEN recs' = [recs EXCEPT
                       !.agent = recs.state,
                       !.heap = Held(Store(@, recs.state,
                                           PinSpeaker(recs.heap[recs.state],
                                                      recs.next_speaker)),
                                     recs.state, recs.orch, recs.state),
                       !.at = "chat"]
       ELSE recs' = [recs EXCEPT !.is_retry = TRUE, !.at = "top"]
    /\ UNCHANGED <<driver, call, convs>>

\* lines 179-184: done() writes through the agent's self.state; the concierge has no
\* memory and run() ends
ChatByRef ==
    /\ recs.at = "chat"
    /\ \E calls \in DoneCalls :
         LET kind == NewAgent(recs.next_speaker)
         IN  recs' = [recs EXCEPT
                        !.heap = Store(@, recs.agent,
                                       AgentTools(kind, recs.heap[recs.agent], calls)),
                        !.wrote = IF kind \in Specialized /\ calls # <<>>
                                  THEN recs.agent ELSE NoRef,
                        !.at = IF HasMemory(kind) THEN "top" ELSE "stopped"]
    /\ UNCHANGED <<driver, call, convs>>

RecordsNext ==
    \/ FirstTurnByRef
    \/ RetryRoutingByRef
    \/ QualityEvalByRef
    \/ AwaitUserByRef
    \/ RouteByRef
    \/ SelectByRef
    \/ ChatByRef

Records == RecordsInit /\ [][RecordsNext]_vars

----------------------------------------------------------------------------
(* Properties *)

\* the fields that hold the result of a research agent, and the agent that owns each
ResultFields == {"company_research", "industry_research", "consumer_research"}
Owner(f) == Str(f)

\* the step is the reset of line 129
IsReset == pc = "top" /\ branch' = "user"

\* the step reads a line of the user (line 121 or line 126)
ReadsUser == pc = "top" /\ branch' \in {"user", "eval_user"}

\* every field of s is as in a new conversation
IsFresh(s) ==
    /\ s.ticker = None
    /\ s.company_research = None
    /\ s.industry_research = None
    /\ s.consumer_research = None
    /\ s.current_agent = None
    /\ s.just_finished = FALSE

\* C1 (turn affinity): whenever state.current_agent is set when the routing step is
\* reached, the next speaker is that value and the orchestrator was not asked,
\* whatever the message is.
C1_TurnAffinity ==
    (pc = "select" /\ Truthy(state.current_agent))
        => (next_speaker = state.current_agent /\ consulted = FALSE)

\* an agent kept the floor and the next message went to it without the orchestrator
C1_Witness ==
    /\ pc = "select"
    /\ state.current_agent = COMPANY_RESEARCH
    /\ next_speaker = COMPANY_RESEARCH
    /\ consulted = FALSE
    /\ user_msg_str = Str("query")

\* C2 (bounded routing retry): the number of consecutive iterations with an invalid
\* routing result never exceeds a fixed cap.  With the cap of 2 retries of the
\* specification's scenario the turn is abandoned on the third invalid result, so a
\* fourth never follows.
C2_BoundedRoutingRetry == retry_count <= 3

\* C3 as claimed (completion atomicity): after done() fired, at the next routing
\* decision current_agent is empty and just_finished is true.
C3_AtNextRouting ==
    (pc = "route" /\ done_fired)
        => (state.current_agent = None /\ state.just_finished = TRUE)

\* C3 as amended: after done() fired, current_agent is empty and just_finished is true
\* when the chat returns and when the driver next reads the state at the top of the
\* loop; at the next routing decision current_agent is still empty, and just_finished
\* is true unless the driver itself cleared it on the way (no_further_task, or the
\* reset of the state).
C3_CompletionAtomicity ==
    done_fired =>
        /\ state.current_agent = None
        /\ pc \in {"history", "top"} => state.just_finished = TRUE
        /\ pc = "route" => (state.just_finished = TRUE \/ branch \in {"eval_user", "user"})

\* done() has fired and the driver is about to route the evaluation's follow-up
C3_Witness ==
    /\ pc = "route"
    /\ done_fired
    /\ branch = "eval_followup"
    /\ state.just_finished = TRUE
    /\ state.current_agent = None

\* C4 (result monotonicity): a result field changes only in the chat of the agent that
\* owns it or in the reset of the state; no dispatch to another agent changes it.
C4_ResultMonotonicity ==
    [][\A f \in ResultFields :
          state'[f] # state[f]
              => (IsReset \/ (pc = "chat" /\ current_agent = Owner(f)))]_vars

\* the consumer agent has completed while the industry result of an earlier dispatch
\* is still there
C4_Witness ==
    /\ pc = "history"
    /\ current_agent = CONSUMER_RESEARCH
    /\ done_fired
    /\ state.consumer_research # None
    /\ state.industry_research # None

\* C5 (closed routing): an agent is instantiated and recorded in state.current_agent
\* only for a trimmed reply that is a member of AgentName, and then it is the agent of
\* that name; every other reply is invalid: it asks for a retry and pins nothing.
C5_ClosedRouting ==
    [][pc = "select" =>
          \/ /\ pc' = "chat"
             /\ next_speaker \in AgentName
             /\ current_agent' = next_speaker
             /\ state'.current_agent = next_speaker
          \/ /\ pc' = "top"
             /\ is_retry' = TRUE
             /\ state' = state
             /\ current_agent' = current_agent]_vars

\* the orchestrator was asked and the agent it named is about to chat
C5_Witness ==
    /\ pc = "chat"
    /\ consulted = TRUE
    /\ next_speaker = INDUSTRY_RESEARCH
    /\ state.current_agent = INDUSTRY_RESEARCH


\* C6 (just_finished is consumed): after a quality evaluation, whatever it answered,
\* just_finished is false when the dispatch of that iteration begins.
C6_JustFinishedConsumed ==
    (pc = "chat" /\ branch \in {"eval_user", "eval_followup"})
        => state.just_finished = FALSE

\* C7 as claimed (an agent that does not call done() retains control): when an agent
\* returned with current_agent still set to it, the state still names it after the
\* next read of a user line, so that line goes to the same agent.
C7_RetainsControl ==
    [][(Truthy(state.current_agent) /\ ReadsUser)
          => state'.current_agent = state.current_agent]_vars

\* C7 as amended: an agent that returned with current_agent still set keeps the floor
\* until the state is reset.  A message chosen without a reset (the evaluation's
\* follow-up, or the user line read after no_further_task) finds current_agent
\* unchanged and is routed to that agent without asking the orchestrator; the user
\* line read in the else branch resets the state and the orchestrator decides afresh.
C7_RetainsControlUntilReset ==
    [][/\ (pc = "top" /\ Truthy(state.current_agent))
           => IF branch' = "user"
              THEN state'.current_agent = None
              ELSE state'.current_agent = state.current_agent
       /\ pc = "route"
           => IF Truthy(state.current_agent)
              THEN next_speaker' = state.current_agent /\ consulted' = FALSE
              ELSE consulted' = TRUE]_vars

\* a user line, read after no_further_task, is about to be answered by the agent that
\* had kept the floor, and the orchestrator was not asked
C7_Witness ==
    /\ pc = "chat"
    /\ branch = "eval_user"
    /\ consulted = FALSE
    /\ current_agent = STOCK_LOOKUP
    /\ state.current_agent = STOCK_LOOKUP

\* C8 as claimed (every read of user input is followed by a dispatch on a fresh
\* state): when the router decision is made after a user line was read, also after
\* no_further_task, all fields of the state are empty and just_finished is false.
C8_FreshAfterEveryRead ==
    (pc = "route" /\ branch \in {"user", "eval_user"}) => IsFresh(state)

\* C8 as amended: the user line read in the else branch (line 126) is followed by a
\* router decision on a fresh state; the line read after no_further_task (line 121)
\* clears just_finished only: ticker, the three results and current_agent keep their
\* values.
C8_FreshAfterReset ==
    [][(pc = "top" /\ pc' = "route")
          => /\ branch' = "user" => IsFresh(state')
             /\ branch' = "eval_user"
                 => state' = [state EXCEPT !.just_finished = FALSE]]_vars

\* the router decides on a user line read after no_further_task, with the ticker of
\* the earlier lookup still in the state
C8_Witness ==
    /\ pc = "route"
    /\ branch = "eval_user"
    /\ state.ticker # None
    /\ state.just_finished = FALSE

\* C9 (no terminal state): after the chat of any dispatched agent has returned, the
\* driver copies the agent's memory into the root history and starts another
\* iteration; the loop never stops.
C9_LoopNeverStops ==
    [][pc = "history"
          => /\ pc' = "top"
             /\ root_memory' = Append(current_history, current_agent)]_vars

\* C10 (the concierge never signals completion): the chat of the concierge changes no
\* field of the state, current_agent stays concierge, and only the reset of the state
\* takes the concierge out of current_agent.
C10_ConciergeFrame ==
    [][/\ (pc = "chat" /\ current_agent = CONCIERGE)
           => (state' = state /\ state.current_agent = CONCIERGE)
       /\ (state.current_agent = CONCIERGE /\ state'.current_agent # CONCIERGE)
           => IsReset]_vars

\* the concierge has answered the follow-up of an evaluation: the ticker and
\* just_finished of the earlier completion are untouched
C10_Witness ==
    /\ pc = "history"
    /\ current_agent = CONCIERGE
    /\ state.current_agent = CONCIERGE
    /\ state.just_finished = TRUE
    /\ state.ticker # None

\* C11 (the completion signal takes effect at most once per activation): within one
\* dispatch of a specialized agent, the field the agent owns holds the payload of the
\* first done() call, whatever calls followed.
C11_FirstDoneStands ==
    (pc = "chat" /\ call.op = "done" /\ call.payloads # <<>>)
        => state[OwnField(current_agent)] = call.payloads[1]

\* C12 (historical prices are exactly the range): a call of get_historical_stock_prices
\* raises exactly when the provider reports an error, reports no daily series, or no
\* entry of the series has start_date <= date <= end_date; otherwise it returns each
\* entry of the series in that range (both ends included) once, with its date and its
\* closing price, in ascending order of the dates.
C12_HistoricalExactRange ==
    (call.op = "get_historical_stock_prices" /\ call.result.kind # "pending")
        => LET data == call.input.data
               provider_fails ==
                   Has(data, "Error Message") \/ ~Has(data, "Time Series (Daily)")
               series == data["Time Series (Daily)"]
               day(i) == strptime(series[i][1])
               wanted == {i \in 1..Len(series) :
                            /\ DateLeq(strptime(call.input.start_date), day(i))
                            /\ DateLeq(day(i), strptime(call.input.end_date))}
               prices == call.result.value
           IN  IF provider_fails \/ wanted = {}
               THEN call.result.kind = "raise"
               ELSE /\ call.result.kind = "return"
                    /\ Len(prices) = Cardinality(wanted)
                    /\ \A i \in wanted : \E j \in 1..Len(prices) :
                          prices[j] = [date |-> series[i][1],
                                       price |-> ParseNat(series[i][2]["4. close"])]
                    /\ \A j, k \in 1..Len(prices) :
                          j < k => /\ prices[j].date # prices[k].date
                                   /\ DateLeq(strptime(prices[j].date),
                                              strptime(prices[k].date))

\* three entries answered latest first, the earliest before start_date: the other two
\* are returned earliest first, the second one dated end_date
C12_Witness ==
    /\ call.op = "get_historical_stock_prices"
    /\ call.result.kind = "return"
    /\ Len(call.input.data["Time Series (Daily)"]) = 3
    /\ Len(call.result.value) = 2
    /\ call.input.data["Time Series (Daily)"][1][1] = call.result.value[2].date
    /\ call.input.data["Time Series (Daily)"][2][1] = call.result.value[1].date
    /\ call.result.value[2].date = call.input.end_date
    /\ call.result.value[1].date # call.input.start_date

\* C13 (every article is counted in exactly one bucket): for a non-empty list of
\* articles that all have a title and a description, get_sentiment_analysis returns
\* positive_articles = the number of scores above 0.05, negative_articles = the number
\* below -0.05, neutral_articles = the number of all others, so the three add up to
\* article_count, which is the number of articles of the provider.
C13_SentimentBuckets ==
    LET articles == call.input.json["articles"]
        score(i) == polarity(<<articles[i]["title"], articles[i]["description"]>>)
        positive == {i \in 1..Len(articles) : score(i) > PolarityThreshold}
        negative == {i \in 1..Len(articles) : score(i) < -PolarityThreshold}
        result == call.result.value
    IN  (/\ call.op = "get_sentiment_analysis"
         /\ call.result.kind # "pending"
         /\ ~call.input.http_error
         /\ Has(call.input.json, "articles")
         /\ articles # <<>>
         /\ \A i \in 1..Len(articles) :
               Has(articles[i], "title") /\ Has(articles[i], "description"))
            => /\ call.result.kind = "return"
               /\ result.positive_articles = Cardinality(positive)
               /\ result.negative_articles = Cardinality(negative)
               /\ result.neutral_articles
                     = Cardinality((1..Len(articles)) \ (positive \cup negative))
               /\ result.positive_articles + result.neutral_articles
                     + result.negative_articles = result.article_count
               /\ result.article_count = Len(articles)

\* three articles, two scored exactly at the thresholds 0.05 and -0.05 and one above:
\* one positive, two neutral
C13_Witness ==
    /\ call.op = "get_sentiment_analysis"
    /\ call.result.kind = "return"
    /\ call.result.value.article_count = 3
    /\ call.result.value.positive_articles = 1
    /\ call.result.value.neutral_articles = 2
    /\ call.result.value.negative_articles = 0
    /\ \E i, j \in 1..3 :
          /\ call.input.json["articles"][i]["description"] = PolarityThreshold
          /\ call.input.json["articles"][j]["description"] = -PolarityThreshold

\* C14 (every failure of the sentiment analysis is a ValueError): a call of
\* get_sentiment_analysis raises when the HTTP request fails, when the provider returns
\* no article, or when an article lacks its title or description; whatever it raises is
\* a ValueError; and a result it returns never has article_count = 0.
C14_SentimentFailsAsValueError ==
    LET json == call.input.json
        fails ==
            \/ call.input.http_error
            \/ ~Has(json, "articles")
            \/ json["articles"] = <<>>
            \/ \E i \in 1..Len(json["articles"]) :
                  ~Has(json["articles"][i], "title")
                     \/ ~Has(json["articles"][i], "description")
    IN  (call.op = "get_sentiment_analysis" /\ call.result.kind # "pending")
            => /\ fails => call.result.kind = "raise"
               /\ call.result.kind = "raise" => call.result.value = "ValueError"
               /\ call.result.kind = "return" => call.result.value.article_count > 0

\* the request succeeded and the second of two articles has no title: the KeyError of
\* line 289 reached the caller as a ValueError
C14_Witness ==
    /\ call.op = "get_sentiment_analysis"
    /\ ~call.input.http_error
    /\ Has(call.input.json, "articles")
    /\ Len(call.input.json["articles"]) = 2
    /\ Has(call.input.json["articles"][1], "title")
    /\ Has(call.input.json["articles"][1], "description")
    /\ ~Has(call.input.json["articles"][2], "title")
    /\ call.result.kind = "raise"
    /\ call.result.value = "ValueError"

\* C15 (the symbol search returns the first match or fails): a call of
\* search_for_stock_symbol raises when the provider reports an error or bestMatches is
\* absent or empty, and otherwise returns the symbol, name, type, region and currency
\* of the first element of bestMatches.
C15_SearchFirstMatch ==
    (call.op = "search_for_stock_symbol" /\ call.result.kind # "pending")
        => LET data == call.input
               first == data["bestMatches"][1]
           IN  IF \/ Has(data, "Error Message")
                  \/ ~Has(data, "bestMatches")
                  \/ Len(data["bestMatches"]) = 0
               THEN call.result.kind = "raise"
               ELSE /\ call.result.kind = "return"
                    /\ DOMAIN call.result.value
                          = {"symbol", "name", "type", "region", "currency"}
                    /\ call.result.value.symbol = first["1. symbol"]
                    /\ call.result.value.name = first["2. name"]
                    /\ call.result.value.type = first["3. type"]
                    /\ call.result.value.region = first["4. region"]
                    /\ call.result.value.currency = first["8. currency"]

\* the provider listed two different matches and the record of the first one came back
C15_Witness ==
    /\ call.op = "search_for_stock_symbol"
    /\ call.result.kind = "return"
    /\ Len(call.input["bestMatches"]) = 2
    /\ call.input["bestMatches"][1] # call.input["bestMatches"][2]
    /\ call.result.value.symbol = call.input["bestMatches"][1]["1. symbol"]
    /\ call.result.value.currency = call.input["bestMatches"][1]["8. currency"]

\* C16 (the leadership record always has its six keys): whatever the profile lookup
\* does, get_company_leadership returns, without raising, a record with the keys CEO,
\* Company, Industry, Sector, Full Time Employees and Website, each holding the value
\* of the provider or 'N/A'.
C16_AlwaysSixKeys ==
    (call.op = "get_company_leadership" /\ call.result.kind # "pending")
        => /\ call.result.kind = "return"
           /\ DOMAIN call.result.value = LeadershipKeys
           /\ \A key \in LeadershipKeys :
                 call.result.value[key]
                    = IF call.input.ok /\ Has(call.input.info, InfoKey(key))
                      THEN call.input.info[InfoKey(key)] ELSE NA

\* C17 (conversation isolation): a call of get_initial_state gives the conversation a
\* record of its own with ticker, the three result fields and current_agent empty and
\* just_finished false; and a dispatch, completion, clearing of just_finished or reset
\* in one conversation leaves the record of the other conversation, and every field of
\* it, as it was.
C17_ConversationIsolation ==
    [][\A c \in Conversations :
          LET other == 3 - c
          IN  /\ (convs'.held[c] # convs.held[c])
                  => /\ IsFresh(convs'.heap[convs'.held[c]])
                     /\ convs'.held[c] # convs'.held[other]
              /\ (convs' # convs /\ convs'.actor = c /\ convs.held[other] # NoRef)
                  => /\ convs'.held[other] = convs.held[other]
                     /\ convs'.heap[convs'.held[other]] = convs.heap[convs.held[other]]]_vars

\* conversation 2 has a company research result and is pinned to the concierge;
\* conversation 1 then completed a stock lookup and was reset: conversation 2 still
\* holds what it had
C17_Witness ==
    /\ convs.actor = 1
    /\ convs.held[1] # NoRef
    /\ convs.held[2] # NoRef
    /\ IsFresh(convs.heap[convs.held[1]])
    /\ convs.heap[convs.held[2]].company_research # None
    /\ convs.heap[convs.held[2]].current_agent = CONCIERGE
    /\ convs.heap[convs.held[2]].just_finished = FALSE

\* C18 (an invalid routing result changes nothing but the retry flag): when the trimmed
\* reply of the router is none of the five dispatchable names, no agent is created or
\* invoked, the state (whose current_agent is empty) and the root history stay as they
\* are and only is_retry is set; the next iteration keeps both again and consults the
\* router.
C18_InvalidRoutingFrame ==
    [][/\ (pc = "select" /\ next_speaker \notin Dispatchable)
           => /\ state' = state
              /\ ~Truthy(state.current_agent)
              /\ root_memory' = root_memory
              /\ current_agent' = current_agent
              /\ is_retry' = TRUE
              /\ pc' = "top"
       /\ (pc = "top" /\ ~first_run /\ is_retry)
           => /\ state' = state
              /\ root_memory' = root_memory
              /\ branch' = "retry"
              /\ pc' = "route"
       /\ (pc = "route" /\ branch = "retry")
           => /\ consulted' = TRUE
              /\ state' = state
              /\ root_memory' = root_memory]_vars

\* the router was consulted again after an invalid reply to the follow-up of a
\* completed stock lookup: the ticker and the history of that lookup are still there
C18_Witness ==
    /\ pc = "select"
    /\ branch = "retry"
    /\ consulted = TRUE
    /\ retry_count = 1
    /\ state.ticker # None
    /\ state.just_finished = TRUE
    /\ root_memory # <<>>

\* C19 (the driver, not the router, persists the choice): whenever the chat of a
\* dispatched agent is about to be invoked, state.current_agent is the name of that
\* agent; and state.current_agent takes a new non-empty value only in the branch of
\* the driver that creates the agent of that name.
C19_DriverPersistsChoice ==
    [][/\ pc = "chat"
           => /\ current_agent \in Dispatchable
              /\ state.current_agent = current_agent
       /\ (state'.current_agent # state.current_agent /\ state'.current_agent # None)
           => /\ pc = "select"
              /\ pc' = "chat"
              /\ state'.current_agent = next_speaker
              /\ current_agent' = NewAgent(next_speaker)]_vars

\* the router chose the stock agent for a follow-up request and the driver pinned it
C19_Witness ==
    /\ pc = "chat"
    /\ consulted = TRUE
    /\ branch = "eval_followup"
    /\ next_speaker = STOCK_LOOKUP
    /\ current_agent = STOCK_LOOKUP
    /\ state.current_agent = STOCK_LOOKUP

\* C20 (frame of the completion signal): a done(payload) call of any of the four
\* specialized agents sets the field the agent owns to payload, current_agent to None
\* and just_finished to True, and leaves the other three result fields as they were.
C20_DoneFrame ==
    [][(call.op = "done" /\ call'.payloads # call.payloads)
          => LET payload == call'.payloads[Len(call'.payloads)]
                 own == OwnField(current_agent)
             IN  /\ current_agent \in Specialized
                 /\ state'[own] = payload
                 /\ state'.current_agent = None
                 /\ state'.just_finished = TRUE
                 /\ \A f \in Fields \ {own} : state'[f] = state[f]]_vars

\* the industry agent has signalled completion once, with a payload that differs from
\* what the other three fields hold, and those fields are still set
C20_Witness ==
    /\ pc = "chat"
    /\ current_agent = INDUSTRY_RESEARCH
    /\ call.op = "done"
    /\ call.payloads = <<Str("p1")>>
    /\ state.industry_research = Str("p1")
    /\ \A f \in Fields \ {"industry_research"} : state[f] = Str("p2")
    /\ state.current_agent = None
    /\ state.just_finished = TRUE

\* C21 (only the completion signal of the current agent sets just_finished): whenever
\* just_finished goes from false to true, the step is the chat of a specialized agent
\* that state.current_agent named when the chat began, and done() ran in that chat; no
\* step of the driver, the router, the evaluation or the concierge sets it.
C21_OnlyDoneSetsJustFinished ==
    [][(state.just_finished = FALSE /\ state'.just_finished = TRUE)
          => /\ pc = "chat"
             /\ current_agent \in Specialized
             /\ state.current_agent = current_agent
             /\ done_fired'
             /\ state'[OwnField(current_agent)] \in Payloads]_vars

\* the company research agent, chosen for the line the user typed after an evaluation,
\* has just signalled completion
C21_Witness ==
    /\ pc = "history"
    /\ branch = "eval_user"
    /\ current_agent = COMPANY_RESEARCH
    /\ done_fired
    /\ state.just_finished = TRUE
    /\ state.company_research # None

\* C22 (evaluation gating): in an iteration that is neither the first nor a routing
\* retry, the quality evaluation runs exactly when just_finished is true and the
\* iteration counter, incremented for this iteration, is below 5; in every other such
\* iteration the driver reads user input, replaces the state by a fresh one and sets
\* the counter to 0.
C22_EvaluationGating ==
    [][(pc = "top" /\ ~first_run /\ is_retry # TRUE)
          => LET evaluates == branch' \in {"eval_user", "eval_followup"}
             IN  /\ evaluates <=> (state.just_finished = TRUE /\ num_tries + 1 < EvalLimit)
                 /\ ~evaluates => /\ branch' = "user"
                                  /\ user_msg_str' \in {strip(line) : line \in UserLines}
                                  /\ IsFresh(state')
                                  /\ num_tries' = 0]_vars

\* four evaluations have run since the user was last asked and just_finished is true
\* again: the counter is about to reach 5 and the gate to refuse the fifth
C22_Witness ==
    /\ pc = "top"
    /\ ~first_run
    /\ is_retry # TRUE
    /\ state.just_finished = TRUE
    /\ eval_count = 4
    /\ num_tries = 4

\* C23 (the history given to the quality evaluation is current): whenever the quality
\* evaluation is invoked, its chat_history (line 116 passes current_history) is what
\* the root memory holds at that moment, the exchange of the most recent dispatch
\* included.
C23_EvalHistoryCurrent ==
    [][(pc = "top" /\ branch' \in {"eval_user", "eval_followup"})
          => /\ current_history = MemoryGet(root_memory)
             /\ current_history # <<>>
             /\ current_history[Len(current_history)] = root_memory[Len(root_memory)]]_vars

\* C24, as claimed (evaluation outcome): when the trimmed reply of the quality
\* evaluation is the sentinel no_further_task the driver reads user input; for every
\* other reply the trimmed reply is the message of this iteration, given to the router
\* and to the dispatched agent, and no user input is read.
C24_SentinelIsWholeReply ==
    [][/\ (pc = "top" /\ branch' \in {"eval_user", "eval_followup"})
           => IF eval_response' = Str(NO_FURTHER_TASK)
              THEN /\ branch' = "eval_user"
                   /\ user_msg_str' \in {strip(line) : line \in UserLines}
              ELSE /\ branch' = "eval_followup"
                   /\ user_msg_str' = eval_response'
       /\ pc \in {"route", "select", "chat"} => user_msg_str' = user_msg_str]_vars

\* C24, amended (evaluation outcome): when the trimmed reply of the quality evaluation
\* contains the sentinel no_further_task anywhere the driver reads user input and that
\* line is the message of this iteration; for every reply that does not contain it the
\* trimmed reply is the message, given to the router and to the dispatched agent, and
\* no user input is read.
C24_SentinelAnywhereInReply ==
    [][/\ (pc = "top" /\ branch' \in {"eval_user", "eval_followup"})
           => IF Contains(eval_response', "no_further_task")
              THEN /\ branch' = "eval_user"
                   /\ user_msg_str' \in {strip(line) : line \in UserLines}
              ELSE /\ branch' = "eval_followup"
                   /\ user_msg_str' = eval_response'
       /\ pc \in {"route", "select", "chat"} => user_msg_str' = user_msg_str]_vars

\* the evaluation answered a follow-up that mentions the sentinel: the line the user
\* typed, not the reply, is about to be given to the dispatched agent
C24_Witness ==
    /\ pc = "chat"
    /\ branch = "eval_user"
    /\ eval_response = <<"more", WS, "no_further_task">>
    /\ user_msg_str = Str("query")

\* C25 (first turn): the first iteration of the driver, and no other, takes the
\* greeting branch: its message is "Hello", it reads no user input, runs no quality
\* evaluation, leaves the state as it is and clears first_run, which is never set
\* again.
C25_FirstTurnGreetsOnce ==
    [][/\ branch = "none" => (first_run /\ pc = "top")
       /\ (pc = "top" /\ first_run)
           => /\ branch = "none"
              /\ branch' = "first"
              /\ user_msg_str' = Str("Hello")
              /\ eval_response' = Unbound
              /\ eval_count' = eval_count
              /\ state' = state
              /\ first_run' = FALSE
       /\ (pc = "top" /\ ~first_run) => branch' # "first"
       /\ ~first_run => ~first_run']_vars

\* the greeting has been routed to the stock agent: the state is the initial one with
\* the agent pinned, and first_run is cleared
C25_Witness ==
    /\ pc = "chat"
    /\ branch = "first"
    /\ ~first_run
    /\ num_tries = 1
    /\ user_msg_str = Str("Hello")
    /\ eval_response = Unbound
    /\ state = PinSpeaker(get_initial_state, STOCK_LOOKUP)

\* C26 (a routing retry replaces the message): an invalid routing result makes the
\* next iteration a retry, whose message is the corrective instruction; the router is
\* given that message and, if it now names a dispatchable agent, so is the chat of
\* that agent.
C26_RetryReplacesMessage ==
    [][/\ (pc = "select" /\ ~IsValidSpeaker(next_speaker))
           => (pc' = "top" /\ is_retry' = TRUE /\ ~first_run)
       /\ (pc = "top" /\ is_retry = TRUE)
           => /\ branch' = "retry"
              /\ user_msg_str' = Str("That's not right, try again. Pick one agent.")
              /\ pc' = "route"
       /\ (branch = "retry" /\ pc \in {"route", "select", "chat"})
           => /\ user_msg_str = Str("That's not right, try again. Pick one agent.")
              /\ user_msg_str' = user_msg_str]_vars

\* the user's line was routed to nothing, the corrective instruction was routed to the
\* industry agent, whose chat is about to receive the instruction
C26_Witness ==
    /\ pc = "chat"
    /\ branch = "retry"
    /\ consulted = TRUE
    /\ num_tries = 1
    /\ current_agent = INDUSTRY_RESEARCH
    /\ user_msg_str = Str("That's not right, try again. Pick one agent.")

\* C27 (current_agent is empty or dispatchable): state.current_agent is None or one of
\* stock_lookup, company_research, industry_research, consumer_research, concierge; a
\* reply "orchestrator" of the router never gets an agent created or invoked; and
\* whenever a routing retry is pending or under way current_agent is None.
C27_CurrentAgentDispatchable ==
    /\ state.current_agent \in {None, STOCK_LOOKUP, COMPANY_RESEARCH, INDUSTRY_RESEARCH,
                                CONSUMER_RESEARCH, CONCIERGE}
    /\ pc \in {"chat", "history", "stopped"}
          => (next_speaker # ORCHESTRATOR /\ current_agent # NewAgent(ORCHESTRATOR))
    /\ is_retry = TRUE => (pc = "top" /\ state.current_agent = None)
    /\ (branch = "retry" /\ pc \in {"route", "select"}) => state.current_agent = None

\* the router answered "orchestrator" for the follow-up of a completed stock lookup:
\* nothing was pinned and a retry is pending
C27_Witness ==
    /\ pc = "top"
    /\ is_retry = TRUE
    /\ next_speaker = ORCHESTRATOR
    /\ branch = "eval_followup"
    /\ state.current_agent = None
    /\ state.ticker # None

\* C28 (bounded evaluation chain): when a quality evaluation runs, fewer than 4 have
\* run since user input was last read (or since the start), so at most 4 run between
\* two reads; the iteration counter grows by one in every iteration that reads no user
\* input, routing retries included (as far as the model counts, i.e. below MaxTries),
\* and is set to 0 exactly by the iterations that read it.
C28_AtMostFourEvaluations ==
    [][/\ (pc = "top" /\ branch' \in {"eval_user", "eval_followup"})
           => (eval_count < 4 /\ eval_count + 1 <= num_tries + 1)
       /\ (pc = "top" /\ branch' \in {"first", "retry", "eval_followup"})
           => /\ num_tries' > num_tries \/ num_tries = MaxTries
              /\ num_tries < MaxTries => num_tries' = num_tries + 1
       /\ (pc = "top" /\ branch' \in {"user", "eval_user"})
           => (num_tries' = 0 /\ eval_count' = 0)
       /\ pc # "top" => (num_tries' = num_tries /\ eval_count' = eval_count)]_vars

\* the fourth evaluation in a row answered with a follow-up request
C28_Witness ==
    /\ pc = "route"
    /\ branch = "eval_followup"
    /\ eval_count = 4
    /\ num_tries = 4
    /\ state.just_finished = TRUE

\* C29 (return to the user): when every call returns and the router names a
\* dispatchable agent whenever it is asked, the driver always reads real user input
\* again, i.e. the state that follows a read of user input recurs for ever.
C29_ReturnsToUser == []<>(pc = "route" /\ branch \in {"user", "eval_user"})

\* C30 (one live state record): in a consultation of the router the orchestrator is
\* bound to the dict `state` refers to and its flag checks answer from that dict; the
\* agent dispatched next is bound to the same dict, which is the one the consultation
\* of that iteration read; and a completion signal writes into the dict `state`
\* refers to, which then holds the result of the agent's done() calls.
C30_OneLiveRecord ==
    [][/\ (recs.at = "route" /\ recs'.consulted)
           => /\ recs'.orch = recs.state
              /\ recs'.state = recs.state
              /\ recs'.flags = FlagChecks(recs.heap[recs.state])
       /\ (recs.at = "select" /\ recs'.at = "chat")
           => /\ recs'.agent = recs.state
              /\ recs'.state = recs.state
              /\ recs.consulted => recs'.agent = recs.orch
       /\ (recs.at = "chat" /\ recs'.wrote # NoRef)
           => /\ recs'.wrote = recs.state
              /\ recs'.state = recs.state
              /\ recs'.heap[recs.state].just_finished = TRUE
              /\ recs'.heap[recs.state].current_agent = None]_vars

\* after a reset the router was consulted: the agent of the previous dispatch still
\* holds the discarded dict, with a ticker in it, and the checks answered from the
\* new one
C30_Witness ==
    /\ recs.at = "select"
    /\ recs.consulted
    /\ recs.agent # NoRef
    /\ recs.agent # recs.state
    /\ recs.orch = recs.state
    /\ recs.heap[recs.agent].ticker # None
    /\ recs.flags.has_ticker = FALSE

====
